---- MODULE Spec2Model ----
(***************************************************************************)
(* Model of the document quality-control tool (src/app.py): the document  *)
(* preparer truncate_text_for_analysis, the advisory estimator            *)
(* estimate_tokens, and the analysis flow of main; and of the message     *)
(* categorizer (src/main.py): the /categorize operation and               *)
(* categorize_with_openai.                                                 *)
(*                                                                         *)
(* A text is a run-length encoded Python str: a sequence of runs           *)
(* [ch |-> c, n |-> k] standing for the character c repeated k >= 1 times, *)
(* adjacent runs having different characters.  Offsets and lengths are     *)
(* those of the Python str, so the program's own constants can be used.    *)
(* The categorizer looks inside its strs, so there a str is a sequence of  *)
(* one-character strings.                                                  *)
(***************************************************************************)
EXTENDS Integers, Sequences, FiniteSets, TLC

\* ---------------------------------------------------------------- bounds

\* Longest run of ordinary characters in an enumerated input text.
MaxRunLen == 8
\* Longest run of one boundary character ('.' or newline) in such a text.
MaxBoundaryRun == 1
\* Most runs in an enumerated input text.
MaxRuns == 4
\* Largest max_chars passed to truncate_text_for_analysis as an input.
MaxPolicy == 11
\* Non-positive policies -MinPolicy .. 0 are enumerated as well.
MinPolicy == 1
\* Longest run of ordinary characters and most runs in a text handed to
\* estimate_tokens as an input.
MaxEstRunLen == 4
MaxEstRuns == 2
\* The user clicks only the first MaxSuggestClicked suggested-criterion
\* buttons, and adds no new criterion once the list has MaxCriteria entries.
MaxSuggestClicked == 3
MaxCriteria == 2
\* Most files in one request to /categorize.
MaxFiles == 2

\* ------------------------------------------------------ program constants

\* app.py:20-23
MAX_FILE_SIZE_MB == 10
MAX_FILE_SIZE_BYTES == MAX_FILE_SIZE_MB * 1024 * 1024
MAX_TOKENS == 8000
MAX_CHARS == 30000

\* app.py:94  len(truncation_notice) when the document was truncated
NoticeLen == 133
\* app.py:96-126  the characters of the prompt template before the
\* criteria, between the criteria and the document, and after the notice
PromptHeadLen == 169
PromptMidLen == 25
PromptTailLen == 866

\* ------------------------------------------------------------ Python str

\* "a" stands for any character that is neither '.' nor a newline.
Alphabet == {"a", ".", "\n"}

Run(c, k) == [ch |-> c, n |-> k]

RECURSIVE TextLen(_)
\* len(text)
TextLen(t) == IF t = <<>> THEN 0 ELSE Head(t).n + TextLen(Tail(t))

RECURSIVE Take(_, _)
\* The first m characters of t, for 0 <= m.
Take(t, m) ==
    IF m <= 0 \/ t = <<>> THEN <<>>
    ELSE IF Head(t).n <= m THEN <<Head(t)>> \o Take(Tail(t), m - Head(t).n)
    ELSE <<Run(Head(t).ch, m)>>

\* Python's text[:stop]: a negative stop counts from the end, and the
\* slice is clamped to the text.
SliceTo(t, stop) ==
    LET len == TextLen(t)
        s == IF stop < 0
             THEN (IF len + stop < 0 THEN 0 ELSE len + stop)
             ELSE (IF stop > len THEN len ELSE stop)
    IN Take(t, s)

RECURSIVE RFindFrom(_, _, _)
\* Offset of the last character of the last run among t[1..i] whose
\* character is c, or -1.
RFindFrom(t, c, i) ==
    IF i = 0 THEN -1
    ELSE IF t[i].ch = c THEN TextLen(SubSeq(t, 1, i)) - 1
    ELSE RFindFrom(t, c, i - 1)

\* Python's text.rfind(c) for a single character c.
RFind(t, c) == RFindFrom(t, c, Len(t))

\* The character at offset i (0-based) of t, for 0 <= i < len(t).
RECURSIVE CharAt(_, _)
CharAt(t, i) ==
    IF i < Head(t).n THEN Head(t).ch ELSE CharAt(Tail(t), i - Head(t).n)

\* ------------------------------------------------ truncate_text_for_analysis

Returned(t, flag) == [kind |-> "return", text |-> t, was_truncated |-> flag, exc |-> "none"]
Raised(e) == [kind |-> "raise", text |-> <<>>, was_truncated |-> FALSE, exc |-> e]
NoResult == [kind |-> "none", text |-> <<>>, was_truncated |-> FALSE, exc |-> "none"]

FitsLimitStrict(t, max_chars) == TextLen(t) < max_chars

\* app.py:69  len(text) <= max_chars
FitsLimit(t, max_chars) == TextLen(t) <= max_chars

HardCutOneMore(t, max_chars) == SliceTo(t, max_chars + 1)

\* A variant that keeps the characters of the cut in reverse order.
HardCutReversed(t, max_chars) ==
    LET cut == SliceTo(t, max_chars)
    IN [i \in 1..Len(cut) |-> cut[Len(cut) + 1 - i]]

\* app.py:73  truncated = text[:max_chars]
HardCut(t, max_chars) == SliceTo(t, max_chars)

BoundaryEarliest(last_period, last_newline) ==
    IF last_period <= last_newline THEN last_period ELSE last_newline

\* app.py:78  boundary = max(last_period, last_newline)
Boundary(last_period, last_newline) ==
    IF last_period >= last_newline THEN last_period ELSE last_newline

UseBoundaryHalf(boundary, max_chars) == 2 * boundary > max_chars

UseBoundaryAtOrAfter(boundary, max_chars) == 5 * boundary >= 4 * max_chars

\* app.py:79  boundary > max_chars * 0.8.  The product is a float; for an
\* integer boundary and max_chars up to 200000 the comparison agrees with
\* the integer comparison 5 * boundary > 4 * max_chars.
UseBoundary(boundary, max_chars) == 5 * boundary > 4 * max_chars

\* A variant that looks the sentence end up with str.index, which raises
\* ValueError when the character is absent.
TruncateIndexing(t, max_chars) ==
    IF FitsLimit(t, max_chars) THEN Returned(t, FALSE)
    ELSE LET truncated == HardCut(t, max_chars)
         IN IF RFind(truncated, ".") = -1 THEN Raised("ValueError")
            ELSE Returned(truncated, TRUE)

\* app.py:67-82
TruncateTextForAnalysis(t, max_chars) ==
    IF FitsLimit(t, max_chars) THEN Returned(t, FALSE)
    ELSE LET truncated == HardCut(t, max_chars)
             last_period == RFind(truncated, ".")
             last_newline == RFind(truncated, "\n")
             boundary == Boundary(last_period, last_newline)
         IN IF UseBoundary(boundary, max_chars)
            THEN Returned(SliceTo(truncated, boundary + 1), TRUE)
            ELSE Returned(truncated, TRUE)

\* ------------------------------------------------------------ estimate_tokens

\* app.py:61-62  len(tiktoken.encoding_for_model(model).encode(text)).
\* The byte-pair encoder is a library outside the repository; it is modelled
\* by what it does to a text of this alphabet: a run of ordinary characters
\* is merged into tokens of up to four characters, and every '.' and every
\* newline is a token of its own.
RECURSIVE EncodeLen(_)
EncodeLen(t) ==
    IF t = <<>> THEN 0
    ELSE (IF Head(t).ch \in {".", "\n"} THEN Head(t).n ELSE (Head(t).n + 3) \div 4)
         + EncodeLen(Tail(t))

RoughEstimateCeil(t) == (TextLen(t) + 3) \div 4

\* app.py:65  len(text) // 4
RoughEstimate(t) == TextLen(t) \div 4

\* app.py:58-65.  encoder_ok is whether tiktoken delivers the encoding; any
\* exception in the try block selects the fallback.
EstimateTokens(t, encoder_ok) ==
    IF encoder_ok THEN EncodeLen(t) ELSE RoughEstimate(t)

\* ------------------------------------------------- analyze_document_quality

\* Characters of the flow's documents and prompts: "a" an ordinary
\* non-blank character of a document, "t" a template character and "c" a
\* criterion character; '.' and newline as in the source.
Whitespace == {"\n"}

RECURSIVE CriteriaText(_)
\* app.py:90  "\n".join([f"- {criterion}" for criterion in qa_criteria])
CriteriaText(criteria) ==
    IF criteria = <<>> THEN <<>>
    ELSE IF Len(criteria) = 1 THEN <<Run("c", 2 + Head(criteria).len)>>
    ELSE <<Run("c", 2 + Head(criteria).len), Run("\n", 1)>> \o CriteriaText(Tail(criteria))

NoPrompt == [criteria |-> <<>>, text |-> <<>>, notice |-> FALSE, sent |-> FALSE]

\* app.py:92-126  the prompt, kept as its three variable parts
BuildPrompt(criteria, truncated_text, was_truncated) ==
    [criteria |-> criteria, text |-> truncated_text, notice |-> was_truncated, sent |-> TRUE]

\* The prompt as a str: template, criteria, template, document, notice
\* and template.
PromptText(prompt) ==
    <<Run("t", PromptHeadLen)>> \o CriteriaText(prompt.criteria)
        \o <<Run("t", PromptMidLen)>> \o prompt.text
        \o <<Run("t", (IF prompt.notice THEN NoticeLen ELSE 0) + PromptTailLen)>>

NoAnalysis == [kind |-> "none", truncation_warning |-> FALSE]

\* Python truth value of the value analyze_document_quality returns.
Truthy(analysis) ==
    /\ analysis.kind # "none"
    /\ ~(analysis.kind = "empty_object" /\ ~analysis.truncation_warning)

\* The replies of the remote API: a JSON object of the requested shape, a
\* JSON object lacking keys, the empty object, a non-empty JSON array, a
\* text that is no JSON, a BadRequestError naming the context length,
\* another BadRequestError, and any other exception.
Outcomes == {"report", "partial", "empty_object", "array", "malformed",
             "context_length", "bad_request", "api_error"}

\* app.py:134-163  the call, the parse of the reply and the handlers
Respond(outcome, was_truncated) ==
    CASE outcome \in {"report", "partial", "empty_object"} ->
            [ui |-> <<>>, analysis |-> [kind |-> outcome, truncation_warning |-> was_truncated]]
      [] outcome = "array" ->
            IF was_truncated
            THEN [ui |-> <<"error_analyzing">>, analysis |-> NoAnalysis]
            ELSE [ui |-> <<>>, analysis |-> [kind |-> "array", truncation_warning |-> FALSE]]
      [] outcome = "malformed" -> [ui |-> <<"error_parsing">>, analysis |-> NoAnalysis]
      [] outcome = "context_length" -> [ui |-> <<"error_too_large">>, analysis |-> NoAnalysis]
      [] outcome = "bad_request" -> [ui |-> <<"error_openai">>, analysis |-> NoAnalysis]
      [] OTHER -> [ui |-> <<"error_analyzing">>, analysis |-> NoAnalysis]

\* A variant that refuses to call the API above MAX_TOKENS.
SendPromptWithinLimit(prompt, was_truncated, encoder_ok, outcome) ==
    LET estimated_tokens == EstimateTokens(PromptText(prompt), encoder_ok)
        reply == Respond(outcome, was_truncated)
    IN IF estimated_tokens > MAX_TOKENS
       THEN [ui |-> <<"warning_very_large">>, request |-> NoPrompt,
             analysis |-> NoAnalysis, estimated_tokens |-> estimated_tokens]
       ELSE [ui |-> reply.ui, request |-> prompt,
             analysis |-> reply.analysis, estimated_tokens |-> estimated_tokens]

\* app.py:128-163  the try block
SendPrompt(prompt, was_truncated, encoder_ok, outcome) ==
    LET estimated_tokens == EstimateTokens(PromptText(prompt), encoder_ok)
        reply == Respond(outcome, was_truncated)
    IN [ui |-> (IF estimated_tokens > MAX_TOKENS THEN <<"warning_very_large">> ELSE <<>>)
                \o reply.ui,
        request |-> prompt,
        analysis |-> reply.analysis,
        estimated_tokens |-> estimated_tokens]

\* app.py:84-163
AnalyzeDocumentQuality(document_text, qa, encoder_ok, outcome) ==
    LET cut == TruncateTextForAnalysis(document_text, MAX_CHARS)
    IN [invoked |-> TRUE, document |-> document_text, outcome |-> outcome,
        was_truncated |-> cut.was_truncated,
        sent |-> SendPrompt(BuildPrompt(qa, cut.text, cut.was_truncated),
                            cut.was_truncated, encoder_ok, outcome)]

\* app.py:165-220  the truncation warning, then the report; a reply without
\* the expected keys raises in the middle of the display.
DisplayAnalysisResults(analysis) ==
    (IF analysis.truncation_warning THEN <<"warning_truncated_analysis">> ELSE <<>>)
        \o (IF analysis.kind = "report" THEN <<"report">> ELSE <<"uncaught_exception">>)

\* ---------------------------------------------------------------------- main

NoFile == [present |-> FALSE, size |-> 0, type |-> "none", readable |-> FALSE, content |-> <<>>]

\* An uploaded file: its size in bytes, its MIME type, whether the
\* extractor for that type can read it, and the text it then extracts.
UploadedFile(size, type, readable, content) ==
    [present |-> TRUE, size |-> size, type |-> type, readable |-> readable, content |-> content]

NoLog ==
    [invoked |-> FALSE, document |-> <<>>, outcome |-> "none", was_truncated |-> FALSE,
     sent |-> [ui |-> <<>>, request |-> NoPrompt, analysis |-> NoAnalysis,
               estimated_tokens |-> -1]]

Criterion(label, len) == [label |-> label, len |-> len]

\* app.py:294-303
suggested_criteria ==
    << Criterion("Grammar and spelling accuracy", 29),
       Criterion("Clarity and readability", 23),
       Criterion("Logical structure and organization", 34),
       Criterion("Completeness of information", 27),
       Criterion("Professional tone and style", 27),
       Criterion("Consistency in formatting", 25),
       Criterion("Factual accuracy", 16),
       Criterion("Appropriate use of technical terms", 34) >>

NoClick == [kind |-> "none", index |-> 0, custom |-> Criterion("", 0), outcome |-> "none"]
Click(kind, index, custom, outcome) ==
    [kind |-> kind, index |-> index, custom |-> custom, outcome |-> outcome]

\* A variant that accepts a file of any size.
UploadColumnAnySize(file) ==
    IF ~file.present THEN [file |-> NoFile, ui |-> <<>>]
    ELSE [file |-> file, ui |-> <<"file_uploaded">>]

\* app.py:273-287  the size check of the upload column
UploadColumn(file) ==
    IF ~file.present THEN [file |-> NoFile, ui |-> <<>>]
    ELSE IF file.size > MAX_FILE_SIZE_BYTES
    THEN [file |-> NoFile, ui |-> <<"error_file_too_large">>]
    ELSE [file |-> file, ui |-> <<"file_uploaded">>]

\* A variant that does not look at the last entry.
ContainsBeforeLast(criteria, c) == \E i \in 1..(Len(criteria) - 1) : criteria[i] = c

\* criterion in st.session_state.qa_criteria
Contains(criteria, c) == \E i \in 1..Len(criteria) : criteria[i] = c

\* app.py:335  qa_criteria.pop(i), i counted from 0
Pop(criteria, i) == SubSeq(criteria, 1, i) \o SubSeq(criteria, i + 2, Len(criteria))

\* app.py:305-336  the criteria column: the suggested buttons, the custom
\* criterion and the remove buttons; a remove ends the run with a rerun.
CriteriaColumn(criteria, click) ==
    LET suggested == suggested_criteria[click.index + 1]
        afterSuggest ==
            IF click.kind = "suggest" /\ ~Contains(criteria, suggested)
            THEN Append(criteria, suggested) ELSE criteria
        customAdded ==
            /\ click.kind = "custom" /\ click.custom.len > 0
            /\ ~Contains(afterSuggest, click.custom)
        afterCustom == IF customAdded THEN Append(afterSuggest, click.custom) ELSE afterSuggest
        removing == click.kind = "remove" /\ click.index < Len(afterCustom)
    IN [criteria |-> IF removing THEN Pop(afterCustom, click.index) ELSE afterCustom,
        ui |-> IF customAdded THEN <<"added_custom">> ELSE <<>>,
        rerun |-> removing]

\* app.py:25-56 and 345-352  the extractor chosen by the MIME type; None
\* for another type or when the extractor fails.
ExtractText(file) ==
    IF file.type \in {"application/pdf",
            "application/vnd.openxmlformats-officedocument.wordprocessingml.document",
            "text/plain"}
    THEN IF file.readable
         THEN [none |-> FALSE, text |-> file.content, ui |-> <<>>]
         ELSE [none |-> TRUE, text |-> <<>>, ui |-> <<"error_reading">>]
    ELSE [none |-> TRUE, text |-> <<>>, ui |-> <<>>]

\* len(document_text.strip()) == 0
StripIsEmpty(t) == \A i \in 1..Len(t) : t[i].ch \in Whitespace

ExceedsMaxCharsInclusive(doc_length) == doc_length >= MAX_CHARS

\* app.py:363  doc_length > MAX_CHARS
ExceedsMaxChars(doc_length) == doc_length > MAX_CHARS

\* app.py:367-374  the messages of the call, then the report or the
\* failure message
Analyzed(shown, a) ==
    [ui |-> shown \o a.sent.ui
            \o (IF Truthy(a.sent.analysis)
                THEN <<"analysis_completed">> \o DisplayAnalysisResults(a.sent.analysis)
                ELSE <<"error_failed_to_analyze">>),
     log |-> a]

\* app.py:354-376  what the analyze button does with the extracted text
AnalyzeExtracted(extracted, criteria, encoder_ok, outcome) ==
    IF ~extracted.none /\ extracted.text # <<>>
    THEN IF StripIsEmpty(extracted.text)
         THEN [ui |-> extracted.ui \o <<"error_empty_document">>, log |-> NoLog]
         ELSE Analyzed(extracted.ui \o <<"info_document_length">>
                            \o (IF ExceedsMaxChars(TextLen(extracted.text))
                                THEN <<"warning_will_be_truncated">> ELSE <<>>),
                       AnalyzeDocumentQuality(extracted.text, criteria, encoder_ok, outcome))
    ELSE [ui |-> extracted.ui \o <<"error_failed_to_extract">>, log |-> NoLog]

\* app.py:341-383  the analysis section
AnalysisSection(file, criteria, click, encoder_ok) ==
    IF file.present /\ criteria # <<>>
    THEN IF click.kind = "analyze"
         THEN AnalyzeExtracted(ExtractText(file), criteria, encoder_ok, click.outcome)
         ELSE [ui |-> <<>>, log |-> NoLog]
    ELSE IF file.present THEN [ui |-> <<"info_add_criteria">>, log |-> NoLog]
    ELSE IF criteria # <<>> THEN [ui |-> <<"info_upload_document">>, log |-> NoLog]
    ELSE [ui |-> <<"info_get_started">>, log |-> NoLog]

\* The widgets a run puts on the page.
Widgets(file, criteria) ==
    {<<"file_uploader", 0>>, <<"add_custom", 0>>}
        \cup {<<"suggest", i>> : i \in 0..(Len(suggested_criteria) - 1)}
        \cup {<<"remove", i>> : i \in 0..(Len(criteria) - 1)}
        \cup (IF file.present /\ criteria # <<>> THEN {<<"analyze", 0>>} ELSE {})

\* What a run that reaches the end of the script leaves on the page.
SectionPage(upload, column, section) ==
    [criteria |-> column.criteria,
     ui |-> <<"sidebar_key_configured">> \o upload.ui \o column.ui \o section.ui,
     rendered |-> Widgets(upload.file, column.criteria),
     log |-> section.log, rerun |-> FALSE]

\* app.py:258-383  the page below the sidebar, given the outcome of the
\* upload column and of the criteria column; a rerun abandons the run
\* before the analysis section.
MainPage(upload, column, click, encoder_ok) ==
    IF column.rerun
    THEN [criteria |-> column.criteria,
          ui |-> <<"sidebar_key_configured">> \o upload.ui \o column.ui,
          rendered |-> {}, log |-> NoLog, rerun |-> TRUE]
    ELSE SectionPage(upload, column,
                     AnalysisSection(upload.file, column.criteria, click, encoder_ok))

\* app.py:222-383  one run of the script
Main(key, file, criteria, click, encoder_ok) ==
    IF ~key
    THEN [criteria |-> criteria, ui |-> <<"sidebar_enter_key", "warning_enter_key">>,
          rendered |-> {}, log |-> NoLog, rerun |-> FALSE]
    ELSE MainPage(UploadColumn(file), CriteriaColumn(criteria, click), click, encoder_ok)

\* ------------------------------------------- Python str of the categorizer

\* In the message categorizer (src/main.py) a str is a sequence of
\* one-character strings, so that lower, strip, split, endswith, in and
\* float are computed on the characters.

UpperLetters ==
    <<"A", "B", "C", "D", "E", "F", "G", "H", "I", "J", "K", "L", "M", "N",
      "O", "P", "Q", "R", "S", "T", "U", "V", "W", "X", "Y", "Z">>
LowerLetters ==
    <<"a", "b", "c", "d", "e", "f", "g", "h", "i", "j", "k", "l", "m", "n",
      "o", "p", "q", "r", "s", "t", "u", "v", "w", "x", "y", "z">>
Digits ==
    <<"0", "1", "2", "3", "4", "5", "6", "7", "8", "9">>

LowerChar(c) ==
    IF \E i \in 1..Len(UpperLetters) : UpperLetters[i] = c
    THEN LowerLetters[CHOOSE i \in 1..Len(UpperLetters) : UpperLetters[i] = c]
    ELSE c

\* s.lower(), for the ASCII letters
StrLower(s) == [i \in 1..Len(s) |-> LowerChar(s[i])]

\* s.endswith(suffix)
EndsWith(s, suffix) ==
    /\ Len(s) >= Len(suffix)
    /\ SubSeq(s, Len(s) - Len(suffix) + 1, Len(s)) = suffix

\* needle in s
InStr(needle, s) ==
    \E i \in 0..(Len(s) - Len(needle)) : SubSeq(s, i + 1, i + Len(needle)) = needle

StripChars == {" ", "\n", "\t"}

\* s.strip()
Strip(s) ==
    LET kept == {i \in 1..Len(s) : s[i] \notin StripChars}
    IN IF kept = {} THEN <<>>
       ELSE SubSeq(s, CHOOSE i \in kept : \A j \in kept : i <= j,
                      CHOOSE i \in kept : \A j \in kept : j <= i)

RECURSIVE Split(_, _)
\* s.split(sep) for a one-character separator
Split(s, sep) ==
    LET at == {i \in 1..Len(s) : s[i] = sep}
    IN IF at = {} THEN <<s>>
       ELSE LET first == CHOOSE i \in at : \A j \in at : i <= j
            IN <<SubSeq(s, 1, first - 1)>> \o Split(SubSeq(s, first + 1, Len(s)), sep)

\* s[:stop] for 0 <= stop
Prefix(s, stop) == SubSeq(s, 1, IF stop > Len(s) THEN Len(s) ELSE stop)

\* A float with a finite decimal expansion: mantissa / 10^decimals, the
\* mantissa not ending in 0 unless decimals = 0.
RECURSIVE Number(_, _)
Number(mantissa, decimals) ==
    IF decimals > 0 /\ mantissa % 10 = 0 THEN Number(mantissa \div 10, decimals - 1)
    ELSE [mantissa |-> mantissa, decimals |-> decimals]

DigitValue(c) == (CHOOSE i \in 1..Len(Digits) : Digits[i] = c) - 1

RECURSIVE DigitsValue(_)
\* The integer written by a sequence of digits, 0 for the empty one.
DigitsValue(s) ==
    IF s = <<>> THEN 0
    ELSE 10 * DigitsValue(SubSeq(s, 1, Len(s) - 1)) + DigitValue(s[Len(s)])

\* Whether s is an unsigned decimal literal: digits with at most one '.',
\* at least one digit.
IsDecimal(s) ==
    /\ \A i \in 1..Len(s) : s[i] = "." \/ \E d \in 1..Len(Digits) : Digits[d] = s[i]
    /\ Cardinality({i \in 1..Len(s) : s[i] = "."}) <= 1
    /\ \E i \in 1..Len(s) : s[i] # "."

\* float(s) for a stripped s: the value of a decimal literal, ValueError
\* for a text with a character that no float literal has.  The other forms
\* float accepts (sign, exponent, inf, nan, underscores) are not among the
\* replies of the model.
Float(s) ==
    IF IsDecimal(s)
    THEN LET dots == {i \in 1..Len(s) : s[i] = "."}
             digits == SelectSeq(s, LAMBDA c : c # ".")
         IN [ok |-> TRUE,
             value |-> Number(DigitsValue(digits),
                              IF dots = {} THEN 0 ELSE Len(s) - (CHOOSE i \in dots : TRUE))]
    ELSE [ok |-> FALSE, value |-> Number(0, 0)]

\* ---------------------------------------------------- categorize_with_openai

\* main.py:142, 153
ReportingAnfragen ==
    <<"R", "e", "p", "o", "r", "t", "i", "n", "g", " ", "a", "n", "f", "r",
      "a", "g", "e", "n">>
\* main.py:142, 151
SteuerAnfragen ==
    <<"S", "t", "e", "u", "e", "r", " ", "a", "n", "f", "r", "a", "g", "e",
      "n">>

Categories == {ReportingAnfragen, SteuerAnfragen}

\* main.py:142  the word looked for in a reply of unexpected format
ReportingWord ==
    <<"r", "e", "p", "o", "r", "t", "i", "n", "g">>

\* main.py:150  the words that select "Steuer anfragen" in the fallback
FallbackWords ==
    {<<"s", "t", "e", "u", "e", "r">>,
     <<"t", "a", "x">>,
     <<"a", "b", "g", "a", "b", "e">>,
     <<"f", "i", "n", "a", "n", "z", "a", "m", "t">>}

CategoryPair(category, confidence) ==
    [kind |-> "return", category |-> category, confidence |-> confidence]
ValueError == [kind |-> "raise", category |-> <<>>, confidence |-> Number(0, 0)]

\* A reply of the remote model: a completion with a text, a completion
\* whose content is None, or an exception of the API call.
TextReply(t) == [kind |-> "text", text |-> t]
NoContentReply == [kind |-> "no_content", text |-> <<>>]
ApiException == [kind |-> "api_error", text |-> <<>>]

\* main.py:136-145  the parse of the stripped reply
ParseResult(result) ==
    LET parts == Split(result, "|")
    IN IF Len(parts) = 2
       THEN LET confidence == Float(Strip(parts[2]))
            IN IF confidence.ok THEN CategoryPair(Strip(parts[1]), confidence.value)
               ELSE ValueError
       ELSE CategoryPair(IF InStr(ReportingWord, StrLower(result))
                         THEN ReportingAnfragen ELSE SteuerAnfragen,
                         Number(5, 1))

\* main.py:147-153  the except branch
FallbackCategorization(content) ==
    IF \E word \in FallbackWords : InStr(word, StrLower(content))
    THEN CategoryPair(SteuerAnfragen, Number(6, 1))
    ELSE CategoryPair(ReportingAnfragen, Number(6, 1))

\* main.py:103-153.  The API exception, the AttributeError of None.strip()
\* and the ValueError of float are all caught by except Exception.
CategorizeWithOpenai(content, reply) ==
    IF reply.kind = "text" /\ ParseResult(Strip(reply.text)).kind = "return"
    THEN ParseResult(Strip(reply.text))
    ELSE FallbackCategorization(content)

\* ------------------------------------------------------ categorize_messages

\* main.py:85  the length of the content preview
PreviewLen == 200

\* main.py:59  the suffix of an accepted file name
DotMsg ==
    <<".", "m", "s", "g">>
\* main.py:49
KeyRequired ==
    <<"O", "p", "e", "n", "A", "I", " ", "A", "P", "I", " ", "k", "e", "y",
      " ", "i", "s", " ", "r", "e", "q", "u", "i", "r", "e", "d">>
\* main.py:60
FilePrefix ==
    <<"F", "i", "l", "e", " ">>
NotMsgSuffix ==
    <<" ", "i", "s", " ", "n", "o", "t", " ", "a", " ", ".", "m", "s", "g",
      " ", "f", "i", "l", "e">>
\* main.py:99
ErrorProcessingPrefix ==
    <<"E", "r", "r", "o", "r", " ", "p", "r", "o", "c", "e", "s", "s", "i",
      "n", "g", " ">>
\* main.py:79
SubjectLabel ==
    <<"S", "u", "b", "j", "e", "c", "t", ":", " ">>
FromLabel ==
    <<"\n", "F", "r", "o", "m", ":", " ">>
BodyLabel ==
    <<"\n", "B", "o", "d", "y", ":", " ">>
\* main.py:85
Ellipsis ==
    <<".", ".", ".">>

\* A value that is a str or None.
NoneStr == [none |-> TRUE, s |-> <<>>]
Str(s) == [none |-> FALSE, s |-> s]

\* value or ""
OrEmpty(value) == IF value.none THEN <<>> ELSE value.s

\* What extract_msg.Message makes of the bytes of a file: a message with
\* a subject, a sender and a body, or an exception with a text.
Message(subject, sender, body) ==
    [ok |-> TRUE, subject |-> subject, sender |-> sender, body |-> body, error |-> <<>>]
NotAMessage(error) ==
    [ok |-> FALSE, subject |-> NoneStr, sender |-> NoneStr, body |-> NoneStr, error |-> error]

\* An uploaded file of the request.
Upload(filename, message) == [filename |-> filename, message |-> message]

\* The outcome of a request: an HTTPException, or the list returned with
\* status 200.
HTTPException(status_code, detail) ==
    [status_code |-> status_code, detail |-> detail, returned |-> FALSE, results |-> <<>>]
ReturnResults(results) ==
    [status_code |-> 200, detail |-> <<>>, returned |-> TRUE, results |-> results]
NoResponse == [status_code |-> 0, detail |-> <<>>, returned |-> FALSE, results |-> <<>>]

RECURSIVE IntStr(_)
\* str(n) for n >= 0
IntStr(n) ==
    IF n < 10 THEN <<Digits[n + 1]>> ELSE IntStr(n \div 10) \o <<Digits[(n % 10) + 1]>>

\* str(e) of an HTTPException e.  The exception class comes from the web
\* framework: its releases either define __str__ as "<status>: <detail>"
\* or leave the str of an exception without arguments, the empty str.
StrOfHTTPException(e, has_str) ==
    IF has_str THEN IntStr(e.status_code) \o <<":", " ">> \o e.detail ELSE <<>>

\* main.py:59  file.filename.lower().endswith('.msg')
IsMsgName(filename) == EndsWith(StrLower(filename), DotMsg)

\* main.py:60  the exception raised for another file name
NotMsgFile(filename) == HTTPException(400, FilePrefix \o filename \o NotMsgSuffix)

\* main.py:98-99  except Exception as e: every exception of the try block,
\* the HTTPException of line 60 included, becomes a status 500.
ErrorProcessing(filename, str_e) ==
    HTTPException(500, ErrorProcessingPrefix \o filename \o <<":", " ">> \o str_e)

\* main.py:74-79
MessageContent(msg) ==
    SubjectLabel \o OrEmpty(msg.subject) \o FromLabel \o OrEmpty(msg.sender)
        \o BodyLabel \o OrEmpty(msg.body)

\* main.py:85
ContentPreview(message_content) ==
    IF Len(message_content) > PreviewLen
    THEN Prefix(message_content, PreviewLen) \o Ellipsis
    ELSE message_content

NoCall == [made |-> FALSE, content |-> <<>>, reply |-> ApiException,
           result |-> CategoryPair(<<>>, Number(0, 0))]
CallMade(content, reply) ==
    [made |-> TRUE, content |-> content, reply |-> reply,
     result |-> CategorizeWithOpenai(content, reply)]

\* main.py:87-92
CategoryResponse(filename, categorized, preview) ==
    [filename |-> filename, category |-> categorized.category,
     confidence |-> categorized.confidence, content_preview |-> preview]

\* main.py:57-99  one iteration of the loop over the files: the exception
\* that ends the request, or the entry appended to results.
ProcessFile(file, reply, has_str) ==
    IF ~IsMsgName(file.filename)
    THEN [raised |-> TRUE,
          exc |-> ErrorProcessing(file.filename,
                      StrOfHTTPException(NotMsgFile(file.filename), has_str)),
          call |-> NoCall]
    ELSE IF ~file.message.ok
    THEN [raised |-> TRUE,
          exc |-> ErrorProcessing(file.filename, file.message.error),
          call |-> NoCall]
    ELSE [raised |-> FALSE,
          exc |-> NoResponse,
          call |-> CallMade(MessageContent(file.message), reply)]

\* ---------------------------------------------------------------- inputs

RunsOf(maxlen, maxboundary) ==
    {Run("a", k) : k \in 1..maxlen}
        \cup {Run(c, k) : c \in {".", "\n"}, k \in 1..maxboundary}

\* Whether run r may follow text t: its character differs from t's last.
Follows(t, r) == t = <<>> \/ t[Len(t)].ch # r.ch

RECURSIVE TextsOf(_, _)
\* Every text of at most runs runs drawn from the set of runs rs, adjacent
\* runs having different characters.
TextsOf(runs, rs) ==
    IF runs = 0 THEN {<<>>}
    ELSE LET shorter == TextsOf(runs - 1, rs)
             longest == {s \in shorter : Len(s) = runs - 1}
         IN shorter \cup
            UNION {{Append(t, r) : r \in {q \in rs : Follows(t, q)}} : t \in longest}

Texts == TextsOf(MaxRuns, RunsOf(MaxRunLen, MaxBoundaryRun))

Policies == (0 - MinPolicy)..MaxPolicy

EstTexts == TextsOf(MaxEstRuns, RunsOf(MaxEstRunLen, MaxBoundaryRun))

\* Documents of the flow: short, exactly MAX_CHARS long, one character
\* longer, with a sentence end inside the last fifth of the first MAX_CHARS
\* characters, made of sentence ends only, blank, and empty.
DocShort == <<Run("a", 100)>>
DocAtLimit == <<Run("a", MAX_CHARS)>>
DocOver == <<Run("a", MAX_CHARS + 1)>>
DocSentence == <<Run("a", 25000), Run(".", 1), Run("a", 6000)>>
DocDots == <<Run(".", 9000)>>
DocBlank == <<Run("\n", 3)>>
DocEmpty == <<>>

Files ==
    {UploadedFile(2048, "text/plain", TRUE, d) :
        d \in {DocShort, DocAtLimit, DocOver, DocSentence, DocDots, DocBlank, DocEmpty}}
    \cup {UploadedFile(MAX_FILE_SIZE_BYTES, "application/pdf", TRUE, DocOver),
          UploadedFile(MAX_FILE_SIZE_BYTES + 1, "text/plain", TRUE, DocShort),
          UploadedFile(4096, "application/pdf", FALSE, <<>>),
          UploadedFile(4096, "application/octet-stream", TRUE, DocShort)}

\* What the user types as a custom criterion: nothing, a short text, the
\* text of a suggested criterion, and a text of 900 characters.
CustomInputs == {Criterion("", 0), Criterion("Cites its sources", 17),
                 Criterion("Clarity and readability", 23),
                 Criterion("<a criterion of 900 characters>", 900)}

\* Inputs of the categorizer.  Names of uploaded files: two that end in
\* .msg whatever the case, one with another suffix, one shorter than the
\* suffix.
NameQ1 ==
    <<"q", "1", ".", "m", "s", "g">>
NameTaxUpper ==
    <<"T", "A", "X", ".", "M", "S", "G">>
NameNotes ==
    <<"n", "o", "t", "e", "s", ".", "t", "x", "t">>
NameShort ==
    <<"m", "s", "g">>

\* Messages: about a report, with a fallback word inside another word
\* ("Syntax"), with no field set, and one longer than the preview.
MsgReport ==
    Message(Str(<<"K", "P", "I", " ", "B", "e", "r", "i", "c", "h", "t">>),
            Str(<<"a", "@", "b", ".", "d", "e">>),
            Str(<<"B", "i", "t", "t", "e", " ", "d", "a", "s", " ", "D", "a", "s", "h", "b", "o", "a", "r", "d">>))
MsgSyntax ==
    Message(Str(<<"S", "y", "n", "t", "a", "x">>), NoneStr,
            Str(<<"F", "e", "h", "l", "e", "r", " ", "i", "m", " ", "E", "x", "p", "o", "r", "t">>))
MsgBlank == Message(NoneStr, NoneStr, NoneStr)
MsgLong ==
    Message(Str(<<"S", "t", "e", "u", "e", "r">>), Str(<<>>),
            Str([i \in 1..PreviewLen |-> "x"]))
\* The text of the exception extract_msg raises for bytes that are no message.
OleError ==
    <<"n", "o", "t", " ", "a", "n", " ", "O", "L", "E", "2", " ", "f", "i",
      "l", "e">>

Uploads ==
    {Upload(NameQ1, MsgReport), Upload(NameTaxUpper, MsgSyntax),
     Upload(NameQ1, MsgBlank), Upload(NameTaxUpper, MsgLong),
     Upload(NameNotes, MsgReport), Upload(NameShort, MsgBlank),
     Upload(NameQ1, NotAMessage(OleError))}

RECURSIVE ListsOf(_, _)
\* Every list of at most n elements of the set s.
ListsOf(n, s) ==
    IF n = 0 THEN {<<>>}
    ELSE LET shorter == ListsOf(n - 1, s)
         IN shorter \cup {Append(l, x) : l \in {m \in shorter : Len(m) = n - 1}, x \in s}

\* The files of a request: at least one (main.py:45, a required field).
FileLists == ListsOf(MaxFiles, Uploads) \ {<<>>}

\* The api_key form field: empty or filled in.
ApiKeys == {<<>>, <<"s", "k", "-", "1">>}

\* Replies of the remote model: well-formed for each category, well-formed
\* with blanks around the parts, well-formed naming another category,
\* with a confidence that is no number, without a pipe with and without
\* the word reporting, with two pipes, empty, without content, and an
\* exception of the call.
Replies ==
    {TextReply(ReportingAnfragen \o <<"|", "0", ".", "8", "5">>),
     TextReply(<<" ">> \o SteuerAnfragen \o <<" ", "|", " ", "0", ".", "9", "0", "\n">>),
     TextReply(<<"S", "o", "n", "s", "t", "i", "g", "e", "s">> \o <<"|", "0", ".", "9">>),
     TextReply(SteuerAnfragen \o <<"|">> \o <<"h", "o", "c", "h">>),
     TextReply(
               <<"E", "i", "n", "e", " ", "R", "e", "p", "o", "r", "t", "i",
                 "n", "g", " ", "A", "n", "f", "r", "a", "g", "e">>),
     TextReply(<<"U", "n", "k", "l", "a", "r">>),
     TextReply(SteuerAnfragen \o <<"|", "0", ".", "9", "|">>),
     TextReply(<<>>),
     NoContentReply,
     ApiException}

\* ----------------------------------------------------------------- state

VARIABLES
    pc,          \* position of the caller
    text,        \* the text argument
    max_chars,   \* the max_chars argument
    prepared,    \* result of truncate_text_for_analysis(text, max_chars)
    reprepared,  \* result of applying it again to prepared.text
    tiktoken_ok, \* whether tiktoken delivers the gpt-4 encoding in this process
    text_b,      \* a second text handed to estimate_tokens
    est_a,       \* estimate_tokens(text), or -1 before the call
    est_b,       \* estimate_tokens(text_b), or -1 before the call
    api_key,     \* whether the API key field of the sidebar is filled in
    uploaded,    \* the file held by the file uploader, or NoFile
    qa_criteria, \* st.session_state.qa_criteria
    rendered,    \* the widgets the last run of the script put on the page
    ui,          \* the messages the last run showed, in order
    log,         \* what analyze_document_quality did in the last run
    clicked,     \* the button whose click started the last run, or NoClick
    form_api_key,\* the api_key form field of the request to /categorize
    files,       \* the uploaded files of the request
    file_index,  \* how many files the loop of categorize_messages has passed
    results,     \* the results list of categorize_messages
    response,    \* the outcome of the request, or NoResponse
    call         \* the last call of categorize_with_openai

prepVars == <<text, max_chars, prepared, reprepared>>
estVars == <<tiktoken_ok, text_b, est_a, est_b>>
flowVars == <<api_key, uploaded, qa_criteria, rendered, ui, log, clicked>>
catVars == <<form_api_key, files, file_index, results, response, call>>
vars == <<pc, prepVars, estVars, flowVars, catVars>>

CatIdle ==
    /\ form_api_key = <<>>
    /\ files = <<>>
    /\ file_index = 0
    /\ results = <<>>
    /\ response = NoResponse
    /\ call = NoCall

FlowIdle ==
    /\ api_key = FALSE
    /\ uploaded = NoFile
    /\ qa_criteria = <<>>
    /\ rendered = {}
    /\ ui = <<>>
    /\ log = NoLog
    /\ clicked = NoClick

PrepIdle ==
    /\ text = <<>>
    /\ max_chars = 0
    /\ prepared = NoResult
    /\ reprepared = NoResult

EstIdle ==
    /\ tiktoken_ok = TRUE
    /\ text_b = <<>>
    /\ est_a = -1
    /\ est_b = -1

\* A caller holding a text and a policy, about to call the preparer.
InitPrepare ==
    /\ pc = "start"
    /\ text \in Texts
    /\ max_chars \in Policies
    /\ prepared = NoResult
    /\ reprepared = NoResult
    /\ EstIdle
    /\ FlowIdle
    /\ CatIdle

\* result = truncate_text_for_analysis(text, max_chars)
Prepare ==
    /\ pc = "start"
    /\ prepared' = TruncateTextForAnalysis(text, max_chars)
    /\ pc' = "prepared"
    /\ UNCHANGED <<text, max_chars, reprepared, estVars, flowVars, catVars>>

\* truncate_text_for_analysis(result[0], max_chars)
RePrepare ==
    /\ pc = "prepared"
    /\ prepared.kind = "return"
    /\ reprepared' = TruncateTextForAnalysis(prepared.text, max_chars)
    /\ pc' = "reprepared"
    /\ UNCHANGED <<text, max_chars, prepared, estVars, flowVars, catVars>>

NextPrepare == Prepare \/ RePrepare

SpecPrepare == InitPrepare /\ [][NextPrepare]_vars

\* A caller holding two texts, about to estimate the size of each.
InitEstimate ==
    /\ pc = "start"
    /\ text \in EstTexts
    /\ text_b \in EstTexts
    /\ tiktoken_ok \in BOOLEAN
    /\ est_a = -1
    /\ est_b = -1
    /\ max_chars = 0
    /\ prepared = NoResult
    /\ reprepared = NoResult
    /\ FlowIdle
    /\ CatIdle

\* estimate_tokens(text)
EstimateA ==
    /\ pc = "start"
    /\ est_a' = EstimateTokens(text, tiktoken_ok)
    /\ pc' = "estimated_a"
    /\ UNCHANGED <<prepVars, flowVars, catVars, tiktoken_ok, text_b, est_b>>

\* estimate_tokens(text_b)
EstimateB ==
    /\ pc = "estimated_a"
    /\ est_b' = EstimateTokens(text_b, tiktoken_ok)
    /\ pc' = "estimated_b"
    /\ UNCHANGED <<prepVars, flowVars, catVars, tiktoken_ok, text_b, est_a>>

NextEstimate == EstimateA \/ EstimateB

SpecEstimate == InitEstimate /\ [][NextEstimate]_vars

\* The page as first opened: no API key, no file, no criteria, and the
\* first run of the script done.
Init ==
    /\ pc = "page"
    /\ PrepIdle
    /\ tiktoken_ok \in BOOLEAN
    /\ text_b = <<>> /\ est_a = -1 /\ est_b = -1
    /\ api_key = FALSE
    /\ uploaded = NoFile
    /\ qa_criteria = <<>>
    /\ rendered = {}
    /\ ui = <<"sidebar_enter_key", "warning_enter_key">>
    /\ log = NoLog
    /\ clicked = NoClick
    /\ CatIdle

\* The run that st.experimental_rerun() starts after a remove (app.py:336):
\* the script again, with the same widget values and no click.
Rerun(key, file, first) ==
    IF first.rerun THEN Main(key, file, first.criteria, NoClick, tiktoken_ok) ELSE first

\* The page and the session state a run leaves behind.
Leave(key, file, click, last) ==
    /\ clicked' = click
    /\ api_key' = key
    /\ uploaded' = file
    /\ qa_criteria' = last.criteria
    /\ rendered' = last.rendered
    /\ ui' = last.ui
    /\ log' = last.log
    /\ UNCHANGED <<pc, prepVars, estVars, catVars>>

\* One run of the script for the widget values key and file and the click,
\* followed by the rerun a remove asks for.
ScriptRun(key, file, click) ==
    Leave(key, file, click,
          Rerun(key, file, Main(key, file, qa_criteria, click, tiktoken_ok)))

\* The user fills in or clears the API key (app.py:229).
SetApiKey ==
    \E key \in BOOLEAN :
        /\ key # api_key
        /\ ScriptRun(key, uploaded, NoClick)

\* The user uploads, replaces or removes the file (app.py:267).
SetFile ==
    \E file \in Files \cup {NoFile} :
        /\ <<"file_uploader", 0>> \in rendered
        /\ file # uploaded
        /\ ScriptRun(api_key, file, NoClick)

\* The user clicks "+ <suggested criterion>" (app.py:313).
ClickSuggested ==
    \E i \in 0..(MaxSuggestClicked - 1) :
        /\ <<"suggest", i>> \in rendered
        /\ Len(qa_criteria) < MaxCriteria \/ Contains(qa_criteria, suggested_criteria[i + 1])
        /\ ScriptRun(api_key, uploaded, Click("suggest", i, Criterion("", 0), "none"))

\* The user clicks "Add Custom Criterion" (app.py:321).
ClickAddCustom ==
    \E c \in CustomInputs :
        /\ <<"add_custom", 0>> \in rendered
        /\ Len(qa_criteria) < MaxCriteria \/ Contains(qa_criteria, c)
        /\ ScriptRun(api_key, uploaded, Click("custom", 0, c, "none"))

\* The user clicks the remove button of entry i (app.py:334).
ClickRemove ==
    \E i \in 0..(MaxCriteria - 1) :
        /\ <<"remove", i>> \in rendered
        /\ ScriptRun(api_key, uploaded, Click("remove", i, Criterion("", 0), "none"))

\* The user clicks "Analyze Document Quality" (app.py:342); the remote API
\* answers with one of its outcomes.
ClickAnalyze ==
    \E outcome \in Outcomes :
        /\ <<"analyze", 0>> \in rendered
        /\ ScriptRun(api_key, uploaded, Click("analyze", 0, Criterion("", 0), outcome))

Next ==
    \/ SetApiKey
    \/ SetFile
    \/ ClickSuggested
    \/ ClickAddCustom
    \/ ClickRemove
    \/ ClickAnalyze

Spec == Init /\ [][Next]_vars

\* A request to /categorize has arrived with its form fields.
InitCategorize ==
    /\ pc = "request"
    /\ PrepIdle
    /\ EstIdle
    /\ FlowIdle
    /\ form_api_key \in ApiKeys
    /\ files \in FileLists
    /\ file_index = 0
    /\ results = <<>>
    /\ response = NoResponse
    /\ call = NoCall

\* main.py:48-54  the check of the API key, up to the start of the loop
CheckApiKey ==
    /\ pc = "request"
    /\ IF form_api_key = <<>>
       THEN /\ response' = HTTPException(400, KeyRequired)
            /\ pc' = "responded"
       ELSE /\ response' = response
            /\ pc' = "files"
    /\ UNCHANGED <<prepVars, estVars, flowVars, form_api_key, files, file_index,
                   results, call>>

\* What an iteration of the loop leaves: the request failed with the
\* exception, or one more entry in results.
AfterFile(file, done) ==
    IF done.raised
    THEN /\ response' = done.exc
         /\ pc' = "responded"
         /\ UNCHANGED <<file_index, results, call>>
    ELSE /\ call' = done.call
         /\ results' = Append(results,
                CategoryResponse(file.filename, done.call.result,
                                 ContentPreview(done.call.content)))
         /\ file_index' = file_index + 1
         /\ UNCHANGED <<pc, response>>

\* main.py:56-99  the next file of the request; the remote model answers
\* the call with one of its replies.
NextFile ==
    \E reply \in Replies, has_str \in BOOLEAN :
        /\ pc = "files"
        /\ file_index < Len(files)
        /\ AfterFile(files[file_index + 1],
                     ProcessFile(files[file_index + 1], reply, has_str))
        /\ UNCHANGED <<prepVars, estVars, flowVars, form_api_key, files>>

\* main.py:101  return results
ReturnAll ==
    /\ pc = "files"
    /\ file_index = Len(files)
    /\ response' = ReturnResults(results)
    /\ pc' = "responded"
    /\ UNCHANGED <<prepVars, estVars, flowVars, form_api_key, files, file_index,
                   results, call>>

NextCategorize == CheckApiKey \/ NextFile \/ ReturnAll

SpecCategorize == InitCategorize /\ [][NextCategorize]_vars

\* ------------------------------------------------- claims on the preparer

Called == pc \in {"prepared", "reprepared"}

\* The rightmost offset of a '.' or a newline inside the first max
\* characters of t, or -1 when there is none.
RightmostBoundary(t, max) ==
    LET len == TextLen(t)
        lim == IF max < len THEN max ELSE len
        offs == {i \in 0..(lim - 1) : CharAt(t, i) \in {".", "\n"}}
    IN IF offs = {} THEN -1 ELSE CHOOSE i \in offs : \A j \in offs : j <= i

\* C1: a text no longer than a positive max_chars, the empty text included,
\* is returned unchanged with was_truncated = False.
C1_FitsUnchanged ==
    (Called /\ max_chars > 0 /\ TextLen(text) <= max_chars)
        => prepared = Returned(text, FALSE)

C1_Witness ==
    /\ Called /\ max_chars > 0
    /\ TextLen(text) = max_chars
    /\ prepared = Returned(text, FALSE)

\* C2: a text longer than a positive max_chars comes back with at most
\* max_chars characters and was_truncated = True.
C2_Bounded ==
    (Called /\ max_chars > 0 /\ TextLen(text) > max_chars)
        => /\ prepared.kind = "return"
           /\ TextLen(prepared.text) <= max_chars
           /\ prepared.was_truncated = TRUE

C2_Witness ==
    /\ Called /\ max_chars > 0
    /\ TextLen(text) > max_chars
    /\ prepared.was_truncated
    /\ TextLen(prepared.text) < max_chars

\* C3 as stated: preparing the prepared text again gives the same whole
\* result, text and flag.
C3_WholeResultIdempotent ==
    (pc = "reprepared" /\ max_chars > 0) => reprepared = prepared

\* C3 as amended: preparing the prepared text again returns that text
\* unchanged with was_truncated = False, so the whole results agree exactly
\* when the first call did not truncate.
C3_TextIdempotent ==
    (pc = "reprepared" /\ max_chars > 0)
        => /\ reprepared = Returned(prepared.text, FALSE)
           /\ (reprepared = prepared) <=> ~prepared.was_truncated

C3_Witness ==
    /\ pc = "reprepared" /\ max_chars > 0
    /\ prepared.was_truncated
    /\ reprepared.text = prepared.text
    /\ ~reprepared.was_truncated

\* C4 as stated: a rightmost boundary b at or after 80% of max_chars
\* (5b >= 4 max_chars) makes the result the first b + 1 characters.
C4_CutAtOrAfter80 ==
    LET b == RightmostBoundary(text, max_chars)
    IN (Called /\ max_chars > 0 /\ TextLen(text) > max_chars
            /\ b >= 0 /\ 5 * b >= 4 * max_chars)
        => prepared = Returned(Take(text, b + 1), TRUE)

\* C4 as amended: a rightmost boundary b strictly after 80% of max_chars
\* (5b > 4 max_chars) makes the result the first b + 1 characters; at
\* exactly 80% the result is the hard cut of max_chars characters.
C4_CutAfter80 ==
    LET b == RightmostBoundary(text, max_chars)
    IN (Called /\ max_chars > 0 /\ TextLen(text) > max_chars /\ b >= 0)
        => /\ (5 * b > 4 * max_chars)
                => prepared = Returned(Take(text, b + 1), TRUE)
           /\ (5 * b = 4 * max_chars)
                => prepared = Returned(Take(text, max_chars), TRUE)

C4_Witness ==
    LET b == RightmostBoundary(text, max_chars)
    IN /\ Called /\ max_chars > 0 /\ TextLen(text) > max_chars
       /\ 5 * b > 4 * max_chars
       /\ b + 1 < max_chars
       /\ prepared = Returned(Take(text, b + 1), TRUE)
       /\ CharAt(prepared.text, b) \in {".", "\n"}

\* C5: with no boundary in the first max_chars characters, or the
\* rightmost one before 80% of max_chars, the result is exactly the first
\* max_chars characters with was_truncated = True.
C5_HardCut ==
    LET b == RightmostBoundary(text, max_chars)
    IN (Called /\ max_chars > 0 /\ TextLen(text) > max_chars
            /\ (b = -1 \/ 5 * b < 4 * max_chars))
        => prepared = Returned(Take(text, max_chars), TRUE)

C5_Witness ==
    LET b == RightmostBoundary(text, max_chars)
    IN /\ Called /\ max_chars > 0 /\ TextLen(text) > max_chars
       /\ b >= 0 /\ 5 * b < 4 * max_chars /\ 2 * b > max_chars
       /\ prepared = Returned(Take(text, max_chars), TRUE)

\* C6: a call with max_chars <= 0 fails with InvalidPolicy and returns no
\* (text, flag) pair.
C6_InvalidPolicyRaised ==
    (Called /\ max_chars <= 0) => prepared = Raised("InvalidPolicy")

\* C7: a call with a positive max_chars returns a (text, flag) pair,
\* raises nothing and leaves its arguments and the caller's other state
\* as they were.
C7_ReturnsNoError ==
    [][(pc = "start" /\ pc' = "prepared" /\ max_chars > 0)
        => /\ prepared'.kind = "return"
           /\ prepared'.exc = "none"
           /\ prepared'.was_truncated \in BOOLEAN
           /\ TextLen(prepared'.text) <= TextLen(text)
           /\ <<text, max_chars, reprepared>>' = <<text, max_chars, reprepared>>]_vars

C7_Witness ==
    /\ pc = "prepared" /\ max_chars > 0
    /\ TextLen(text) > max_chars
    /\ RFind(text, ".") = -1
    /\ prepared.kind = "return"

\* C11: for every text and every positive max_chars the returned text is
\* a prefix of the input: its first k characters for some k, so characters
\* are only removed from the end.
C11_ResultIsPrefix ==
    (Called /\ max_chars > 0)
        => /\ prepared.kind = "return"
           /\ \E k \in 0..TextLen(text) : prepared.text = Take(text, k)

C11_Witness ==
    /\ Called /\ max_chars > 0
    /\ prepared.was_truncated
    /\ Len(prepared.text) >= 3
    /\ TextLen(prepared.text) < max_chars
    /\ prepared.text = Take(text, TextLen(prepared.text))
    /\ prepared.text # text

\* ------------------------------------------------ claims on the estimator

\* C8 as stated: the estimate never decreases with the length of the text,
\* and on the fallback path it is floor(len(text) / 4).
C8_MonotoneInLength ==
    (pc = "estimated_b")
        => /\ (TextLen(text) <= TextLen(text_b)) => est_a <= est_b
           /\ ~tiktoken_ok => (est_a * 4 <= TextLen(text) /\ TextLen(text) < est_a * 4 + 4)

\* C8 as amended: on the fallback path the estimate is floor(len(text) / 4)
\* and so never decreases with the length of the text; on the tokenizer
\* path it is the number of tokens of the text, which depends on its content.
C8_FallbackMonotone ==
    (pc = "estimated_b" /\ ~tiktoken_ok)
        => /\ est_a * 4 <= TextLen(text) /\ TextLen(text) < est_a * 4 + 4
           /\ est_b * 4 <= TextLen(text_b) /\ TextLen(text_b) < est_b * 4 + 4
           /\ (TextLen(text) <= TextLen(text_b)) => est_a <= est_b

C8_Witness ==
    /\ pc = "estimated_b" /\ ~tiktoken_ok
    /\ TextLen(text) = 3 /\ TextLen(text_b) = 5
    /\ est_a = 0 /\ est_b = 1

\* ------------------------------------------------------ claims on the flow

Shown(message) == \E i \in 1..Len(ui) : ui[i] = message

C12_AnalysisGuarded ==
    /\ log.invoked =>
            /\ api_key
            /\ uploaded.present
            /\ uploaded.size <= MAX_FILE_SIZE_BYTES
            /\ qa_criteria # <<>>
            /\ log.document = ExtractText(uploaded).text
            /\ ~StripIsEmpty(log.document)
    /\ (api_key /\ uploaded.present /\ uploaded.size > MAX_FILE_SIZE_BYTES) =>
            /\ ~log.invoked
            /\ Shown("error_file_too_large")
            /\ <<"analyze", 0>> \notin rendered

C12_Witness ==
    /\ log.invoked
    /\ api_key
    /\ uploaded.size = MAX_FILE_SIZE_BYTES
    /\ Len(qa_criteria) = 1
    /\ ~StripIsEmpty(log.document)
    /\ log.sent.request.sent

\* What a run does to qa_criteria, by the button clicked: an add of a
\* criterion already present leaves the list unchanged and one not yet
\* present is appended; a remove deletes exactly the entry at the clicked
\* index; no other run changes the list.
CriteriaStep ==
    /\ (clicked'.kind = "suggest") =>
            LET criterion == suggested_criteria[clicked'.index + 1]
            IN qa_criteria' =
                    IF \E k \in 1..Len(qa_criteria) : qa_criteria[k] = criterion
                    THEN qa_criteria ELSE qa_criteria \o <<criterion>>
    /\ (clicked'.kind = "custom" /\ clicked'.custom.len > 0) =>
            qa_criteria' =
                    IF \E k \in 1..Len(qa_criteria) : qa_criteria[k] = clicked'.custom
                    THEN qa_criteria ELSE qa_criteria \o <<clicked'.custom>>
    /\ (clicked'.kind = "remove") =>
            /\ Len(qa_criteria') = Len(qa_criteria) - 1
            /\ \A k \in 1..Len(qa_criteria') :
                    qa_criteria'[k] = IF k <= clicked'.index
                                      THEN qa_criteria[k] ELSE qa_criteria[k + 1]
    /\ (clicked'.kind \notin {"suggest", "custom", "remove"}) =>
            qa_criteria' = qa_criteria

PairwiseDistinct(criteria) ==
    \A i, j \in 1..Len(criteria) : (i # j) => (criteria[i] # criteria[j])

\* C15: qa_criteria never holds the same criterion twice: after any
\* sequence of adds and removes from the empty list its entries are
\* pairwise distinct, and every run changes the list as CriteriaStep says.
C15_CriteriaDistinct == [](PairwiseDistinct(qa_criteria)) /\ [][CriteriaStep]_vars

\* The custom criterion typed is the text of a suggested criterion that is
\* already in the list beside another entry, and the click added nothing.
C15_Witness ==
    /\ clicked.kind = "custom"
    /\ clicked.custom = suggested_criteria[2]
    /\ Len(qa_criteria) = 2
    /\ qa_criteria[2] = clicked.custom
    /\ qa_criteria[1] # qa_criteria[2]
    /\ ~Shown("added_custom")

\* ------------------------------------------------ claims on the categorizer

\* The file at which the loop of categorize_messages stands.
CurrentFile == files[file_index + 1]

\* C13: an uploaded file whose name does not end in '.msg', whatever the
\* case, makes the request fail with status 400 and the detail
\* 'File <name> is not a .msg file', and no result list is returned.
C13_NotMsgFails400 ==
    (pc = "responded" /\ form_api_key # <<>> /\ file_index < Len(files)
            /\ ~IsMsgName(CurrentFile.filename))
        => /\ response.status_code = 400
           /\ response.detail = FilePrefix \o CurrentFile.filename \o NotMsgSuffix
           /\ ~response.returned

\* C14: categorize_with_openai never raises and returns a pair whose
\* category is 'Reporting anfragen' or 'Steuer anfragen', for every
\* message content and every reply or failure of the remote model.
C14_CategoryOneOfTwo ==
    call.made =>
        /\ call.result.kind = "return"
        /\ call.result.category \in Categories

====
